---------------------------- MODULE Spec2Model ----------------------------
(***************************************************************************)
(* A model of the speech / audio client binding.                           *)
(*                                                                         *)
(*   - FloatFrac.MarshalJSON (speech.go) over a small binary floating      *)
(*     point format: the same structure as float64 (sign bit, normal and   *)
(*     subnormal numbers, infinities, NaN, round to nearest even) with     *)
(*     MantBits bits of mantissa instead of 53.                            *)
(*   - CreateTranscription / CreateTranslation / CreateSpeech: the call    *)
(*     path of callAudioAPI, audioMultipartForm and createFileField, one   *)
(*     step per builder operation, with the environment (file system,      *)
(*     form builder, HTTP helper) free to fail each operation.             *)
(***************************************************************************)
EXTENDS Integers, Sequences, FiniteSets, TLC

VARIABLES
    fin,        \* FloatFrac.MarshalJSON: the receiver f
    fpc,        \* FloatFrac.MarshalJSON: "call" before, "ret" after the call
    fout,       \* FloatFrac.MarshalJSON: the returned ([]byte, error)
    pc,         \* position of the API call in flight
    api,        \* "transcriptions" | "translations" | "speech" | "none"
    request,    \* the AudioRequest of the call
    fsOK,       \* whether os.Open(request.FilePath) succeeded
    tgIdx,      \* audioMultipartForm: index of the next timestamp granularity
    ops,        \* the operations performed on the form builder, in order
    formErr,    \* what audioMultipartForm returned (NoErr: nil)
    opened,     \* number of files opened by os.Open
    closed,     \* number of files closed
    sent,       \* number of HTTP requests sent
    sendErr,    \* the error sendRequest returned (NoErr: nil)
    decoded,    \* what sendRequest decoded into its target
    response,   \* the named result `response`
    err         \* the named result `err`

fvars == <<fin, fpc, fout>>
avars == <<pc, api, request, fsOK, tgIdx, ops, formErr, opened, closed, sent,
           sendErr, decoded, response, err>>
vars == <<fin, fpc, fout, pc, api, request, fsOK, tgIdx, ops, formErr, opened,
          closed, sent, sendErr, decoded, response, err>>

---------------------------------------------------------------------------
(* Bounds of the model.                                                    *)

\* Bits of mantissa of the floating point format (float64: 53).
MantBits == 4
\* The smallest exponent of the unit in the last place is -MinExp (float64: 1074).
MinExp == 4
\* The largest exponent of the unit in the last place (float64: 971).
MaxExp == 1
\* The longest TimestampGranularities slice of a request.
MaxGranularities == 2

---------------------------------------------------------------------------
(* Arithmetic helpers.                                                     *)

RECURSIVE Pow(_, _)
Pow(b, n) == IF n = 0 THEN 1 ELSE b * Pow(b, n - 1)

Max(a, b) == IF a >= b THEN a ELSE b

\* Number of bits of a natural number (0 for 0).
RECURSIVE BitLen(_)
BitLen(n) == IF n = 0 THEN 0 ELSE 1 + BitLen(n \div 2)

\* Rounding n / d to the nearest integer, ties to the even one (n >= 0, d > 0).
RoundHalfEven(n, d) ==
    LET q == n \div d
        r == n % d
    IN  IF 2 * r > d \/ (2 * r = d /\ q % 2 = 1) THEN q + 1 ELSE q

---------------------------------------------------------------------------
(* The floating point format.  A finite value is (-1)^neg * m * 2^e, with   *)
(* e the exponent of the unit in the last place: normal numbers have       *)
(* 2^(MantBits-1) <= m < 2^MantBits, subnormal numbers (and the two zeros) *)
(* have e = -MinExp and m < 2^(MantBits-1).                                *)

NaN == [cls |-> "nan", neg |-> FALSE, m |-> 0, e |-> 0]
Inf(sign) == [cls |-> "inf", neg |-> sign < 0, m |-> 0, e |-> 0]
Fin(neg, m, e) == [cls |-> "fin", neg |-> neg, m |-> m, e |-> e]

Finite ==
    { Fin(s, m, e) : s \in BOOLEAN, m \in 0 .. Pow(2, MantBits) - 1,
                     e \in -MinExp .. MaxExp } \
    { Fin(s, m, e) : s \in BOOLEAN, m \in 0 .. Pow(2, MantBits - 1) - 1,
                     e \in 1 - MinExp .. MaxExp }

Float64 == Finite \cup {NaN, Inf(1), Inf(-1)}

\* Magnitudes are counted in units of 2^-(MinExp+1), half the smallest unit in
\* the last place, so that every rounding boundary is a whole number of units.
UnitBits == MinExp + 1
Units(x) == x.m * Pow(2, x.e + UnitBits)
UlpUnits(x) == Pow(2, x.e + UnitBits)

\* The finite value of magnitude u units (u representable).
FromUnits(neg, u) ==
    LET b == BitLen(u)
        s == Max(b - MantBits, 1)
    IN  Fin(neg, u \div Pow(2, s), s - UnitBits)

\* The == of two float64 values: NaN equals nothing, the two zeros are equal.
FloatEq(a, b) ==
    /\ a.cls # "nan" /\ b.cls # "nan"
    /\ a.cls = b.cls
    /\ \/ a.cls = "inf" /\ a.neg = b.neg
       \/ a.cls = "fin" /\ Units(a) = Units(b) /\ (a.neg = b.neg \/ Units(a) = 0)

IsInf(n) == n.cls = "inf"
IsNaN(n) == n.cls = "nan"

\* math.Trunc: the integer part, the sign kept; non-finite values unchanged.
Trunc(n) ==
    IF n.cls # "fin" THEN n
    ELSE FromUnits(n.neg, (Units(n) \div Pow(2, UnitBits)) * Pow(2, UnitBits))


---------------------------------------------------------------------------
(* strconv.AppendFloat(nil, n, 'f', prec, 64): positional notation, never   *)
(* an exponent.  prec >= 0 asks for exactly prec digits after the point    *)
(* (the exact decimal value rounded half to even); prec = -1 asks for the  *)
(* smallest number of digits that identify the value uniquely.  The text is *)
(* a sequence of one-character strings.                                    *)

DigitChars == <<"0", "1", "2", "3", "4", "5", "6", "7", "8", "9">>
Digit(d) == DigitChars[d + 1]

RECURSIVE IntDigits(_)
IntDigits(n) ==
    IF n < 10 THEN <<Digit(n)>> ELSE IntDigits(n \div 10) \o <<Digit(n % 10)>>

\* The last `width` decimal digits of n, padded with zeros on the left.
RECURSIVE FracDigits(_, _)
FracDigits(n, width) ==
    IF width = 0 THEN <<>>
    ELSE FracDigits(n \div 10, width - 1) \o <<Digit(n % 10)>>

\* %f of the decimal c * 10^-k: the integer part, and when k > 0 a point and
\* k digits.
FmtF(neg, c, k) ==
    (IF neg THEN <<"-">> ELSE <<>>) \o
    (IF k <= 0 THEN IntDigits(c * Pow(10, -k))
     ELSE IntDigits(c \div Pow(10, k)) \o <<".">> \o FracDigits(c % Pow(10, k), k))

\* A decimal c * 10^-k against a magnitude of u units compares as
\* c * DecScale(k) against u * UnitScale(k).
DecScale(k) == Pow(2, UnitBits) * (IF k < 0 THEN Pow(10, -k) ELSE 1)
UnitScale(k) == IF k > 0 THEN Pow(10, k) ELSE 1

\* Fixed precision: the exact value rounded to prec digits after the point.
FixedDecimal(x, prec) ==
    [c |-> RoundHalfEven(Units(x) * UnitScale(prec), DecScale(prec)), k |-> prec]

\* The decimals that parse back to x lie between the midpoints to its two
\* neighbours; the midpoints themselves belong to x when its mantissa is even.
\* Below a power of two the lower neighbour is half as far.
HiUnits(x) == Units(x) + UlpUnits(x) \div 2
LoUnits(x) ==
    IF x.m = Pow(2, MantBits - 1) /\ x.e > -MinExp
    THEN Units(x) - UlpUnits(x) \div 4
    ELSE Units(x) - UlpUnits(x) \div 2

InInterval(x, c, k) ==
    LET v == c * DecScale(k)
        lo == LoUnits(x) * UnitScale(k)
        hi == HiUnits(x) * UnitScale(k)
        even == x.m % 2 = 0
    IN  /\ lo < v \/ (even /\ lo = v)
        /\ v < hi \/ (even /\ v = hi)

\* The two decimals with k digits after the point around x.
DecDown(x, k) == (Units(x) * UnitScale(k)) \div DecScale(k)
DecUp(x, k) ==
    IF (Units(x) * UnitScale(k)) % DecScale(k) = 0 THEN DecDown(x, k)
    ELSE DecDown(x, k) + 1

HasShort(x, k) == InInterval(x, DecDown(x, k), k) \/ InInterval(x, DecUp(x, k), k)

\* k ranges from the coarsest decimal that can matter (a multiple of a power
\* of ten above the largest value) to the exact expansion (MinExp digits).
MinDecExp == -(MaxExp + MantBits)
ShortestDecimal(x) ==
    LET k == CHOOSE j \in MinDecExp .. MinExp :
                 /\ HasShort(x, j)
                 /\ \A i \in MinDecExp .. j - 1 : ~HasShort(x, i)
        near == RoundHalfEven(Units(x) * UnitScale(k), DecScale(k))
        other == IF near = DecDown(x, k) THEN DecUp(x, k) ELSE DecDown(x, k)
    IN  [c |-> IF InInterval(x, near, k) THEN near ELSE other, k |-> k]

AppendFloat(n, prec) ==
    IF IsNaN(n) THEN <<"N", "a", "N">>
    ELSE IF IsInf(n) THEN <<(IF n.neg THEN "-" ELSE "+"), "I", "n", "f">>
    ELSE LET d == IF prec < 0 THEN ShortestDecimal(n) ELSE FixedDecimal(n, prec)
         IN  FmtF(n.neg, d.c, d.k)

---------------------------------------------------------------------------
(* FloatFrac.MarshalJSON                                                   *)

\* An error is the sequence of its messages, the outermost first; nil is <<>>.
\* A nil []byte is the empty sequence.
NoErr == <<>>
NoBytes == <<>>
ErrUnsupported == <<"unsupported number">>

PrecInt == 1

\* Faulty variants of Prec: the ".0" never forced; one digit always forced.
PrecNeverForced(n) == -1
PrecAlwaysForced(n) == PrecInt

Prec(n) == IF FloatEq(Trunc(n), n) THEN PrecInt ELSE -1

\* A faulty variant of MarshalJSON: NaN is not rejected.
MarshalJSONNoNaNCheck(f) ==
    LET n == f
    IN  IF IsInf(n)
        THEN [bytes |-> NoBytes, err |-> ErrUnsupported]
        ELSE [bytes |-> AppendFloat(n, Prec(n)), err |-> NoErr]

MarshalJSON(f) ==
    LET n == f
    IN  IF IsInf(n) \/ IsNaN(n)
        THEN [bytes |-> NoBytes, err |-> ErrUnsupported]
        ELSE [bytes |-> AppendFloat(n, Prec(n)), err |-> NoErr]


---------------------------------------------------------------------------
(* The call of FloatFrac.MarshalJSON on every value of the format.         *)

NotDecoded == [target |-> "none", value |-> "none"]

Idle ==
    /\ pc = "idle" /\ api = "none" /\ request = "none" /\ fsOK = FALSE
    /\ tgIdx = 1 /\ ops = <<>> /\ formErr = NoErr /\ opened = 0 /\ closed = 0
    /\ sent = 0 /\ sendErr = NoErr /\ decoded = NotDecoded /\ response = "none"
    /\ err = NoErr

FloatInit ==
    /\ fin \in Float64
    /\ fpc = "call"
    /\ fout = "none"
    /\ Idle

FloatFracMarshalJSON ==
    /\ fpc = "call"
    /\ fout' = MarshalJSON(fin)
    /\ fpc' = "ret"
    /\ UNCHANGED <<fin, avars>>

FloatNext == FloatFracMarshalJSON

FloatSpec == FloatInit /\ [][FloatNext]_vars

---------------------------------------------------------------------------
(* The audio API: requests, responses, errors.                             *)

AudioResponseFormatJSON == "json"
AudioResponseFormatText == "text"
AudioResponseFormatSRT == "srt"
AudioResponseFormatVerboseJSON == "verbose_json"
AudioResponseFormatVTT == "vtt"

\* The declared formats, the undeclared one (""), and one no constant names.
Formats ==
    {"", AudioResponseFormatJSON, AudioResponseFormatText, AudioResponseFormatSRT,
     AudioResponseFormatVerboseJSON, AudioResponseFormatVTT, "xml"}

Granularities == {"word", "segment"}

GranularityLists ==
    UNION { [1 .. n -> Granularities] : n \in 0 .. MaxGranularities }

\* Temperature: +0, -0 and a value that is not zero.
Temperatures == {Fin(FALSE, 0, -MinExp), Fin(TRUE, 0, -MinExp), Fin(FALSE, 9, -MinExp)}

\* Reader is "nil" or a reader.
AudioRequests ==
    [Model : {"", "whisper-1"},
     FilePath : {"a.mp3"},
     Reader : {"nil", "reader"},
     Prompt : {"", "hint"},
     Temperature : Temperatures,
     Language : {"", "en"},
     Format : Formats,
     TimestampGranularities : GranularityLists]

\* AudioResponse{}: nil pointers and nil slices are "nil" and <<>>.
ZeroAudioResponse ==
    [Task |-> "", Language |-> "", Duration |-> 0, Segments |-> <<>>,
     Words |-> <<>>, Text |-> "", AudioInfo |-> "nil", Warnings |-> <<>>,
     Usage |-> "nil", httpHeader |-> "nil"]

\* A faulty variant of ToAudioResponse: the HTTP header is dropped.
ToAudioResponseNoHeader(r) == [ZeroAudioResponse EXCEPT !.Text = r.Text]

\* audioTextResponse.ToAudioResponse
ToAudioResponse(r) ==
    [ZeroAudioResponse EXCEPT !.Text = r.Text, !.httpHeader = r.httpHeader]

\* A faulty variant of HasJSONResponse: an undeclared format is not JSON.
HasJSONResponseNoDefault(r) ==
    r.Format = AudioResponseFormatJSON \/ r.Format = AudioResponseFormatVerboseJSON

\* AudioRequest.HasJSONResponse
HasJSONResponse(r) ==
    r.Format = "" \/ r.Format = AudioResponseFormatJSON
                  \/ r.Format = AudioResponseFormatVerboseJSON

\* fmt.Errorf("<msg>: %w", e)
Wrap(msg, e) == <<msg>> \o e

\* The errors the environment raises.
ErrOpen == <<"open: no such file">>
ErrBuilder == <<"builder: write failed">>
ErrNewRequest == <<"newRequest: bad request">>
SendErrors == {<<"send: transport error">>, <<"send: bad response">>}

\* What sendRequest may leave in an *AudioResponse: nothing, a part, everything.
DecodedJSON ==
    {ZeroAudioResponse,
     [ZeroAudioResponse EXCEPT !.Text = "hel", !.httpHeader = "hdr"],
     [Task |-> "transcribe", Language |-> "en", Duration |-> 3,
      Segments |-> <<"seg">>, Words |-> <<"word">>, Text |-> "hello",
      AudioInfo |-> "info", Warnings |-> <<"warn">>, Usage |-> "usage",
      httpHeader |-> "hdr"]}

\* What sendRequest may leave in an *audioTextResponse.
DecodedText ==
    {[Text |-> "", httpHeader |-> "nil"],
     [Text |-> "hel", httpHeader |-> "hdr"],
     [Text |-> "hello", httpHeader |-> "hdr"]}

\* One operation on the form builder, and whether it succeeded.
Op(op, name, value, ok) == [op |-> op, name |-> name, value |-> value, ok |-> ok]

TemperaturePrec == 2


---------------------------------------------------------------------------
(* CreateTranscription, CreateTranslation: callAudioAPI.                   *)

Init ==
    /\ fin = NaN /\ fpc = "idle" /\ fout = "none"
    /\ Idle

\* callAudioAPI(ctx, request, endpointSuffix) is entered; the named results
\* are their zero values.
CallAudioAPI(r, endpointSuffix) ==
    /\ request' = r
    /\ api' = endpointSuffix
    /\ response' = ZeroAudioResponse
    /\ pc' = "createFileField"
    /\ UNCHANGED <<fsOK, tgIdx, ops, formErr, opened, closed, sent, sendErr,
                   decoded, err, fvars>>

CreateTranscription ==
    /\ pc = "idle"
    /\ \E r \in AudioRequests : CallAudioAPI(r, "transcriptions")

CreateTranslation ==
    /\ pc = "idle"
    /\ \E r \in AudioRequests : CallAudioAPI(r, "translations")

\* createFileField, request.Reader != nil
CreateFormFileReader ==
    /\ pc = "createFileField"
    /\ request.Reader # "nil"
    /\ \E ok \in BOOLEAN :
        /\ ops' = Append(ops, Op("CreateFormFileReader", "file", request.FilePath, ok))
        /\ IF ok THEN pc' = "model" /\ UNCHANGED formErr
           ELSE /\ formErr' = Wrap("creating form using reader", ErrBuilder)
                /\ pc' = "formReturn"
    /\ UNCHANGED <<api, request, fsOK, tgIdx, opened, closed, sent, sendErr,
                   decoded, response, err, fvars>>

\* createFileField, os.Open(request.FilePath): the file system decides.
OsOpen ==
    /\ pc = "createFileField"
    /\ request.Reader = "nil"
    /\ \E ok \in BOOLEAN :
        /\ fsOK' = ok
        /\ IF ok
           THEN opened' = opened + 1 /\ pc' = "createFormFile" /\ UNCHANGED formErr
           ELSE /\ formErr' = Wrap("opening audio file", ErrOpen)
                /\ pc' = "formReturn"
                /\ UNCHANGED opened
    /\ UNCHANGED <<api, request, tgIdx, ops, closed, sent, sendErr, decoded,
                   response, err, fvars>>

\* A faulty variant of CreateFormFile: the file is closed on success only.
CreateFormFileLeaks ==
    /\ pc = "createFormFile"
    /\ \E ok \in BOOLEAN :
        /\ ops' = Append(ops, Op("CreateFormFile", "file", request.FilePath, ok))
        /\ IF ok THEN pc' = "model" /\ closed' = closed + 1 /\ UNCHANGED formErr
           ELSE /\ formErr' = Wrap("creating form file", ErrBuilder)
                /\ pc' = "formReturn"
                /\ UNCHANGED closed
    /\ UNCHANGED <<api, request, fsOK, tgIdx, opened, sent, sendErr, decoded,
                   response, err, fvars>>

\* createFileField, b.CreateFormFile("file", f) and the return, at which the
\* deferred f.Close() runs.
CreateFormFile ==
    /\ pc = "createFormFile"
    /\ \E ok \in BOOLEAN :
        /\ ops' = Append(ops, Op("CreateFormFile", "file", request.FilePath, ok))
        /\ IF ok THEN pc' = "model" /\ UNCHANGED formErr
           ELSE /\ formErr' = Wrap("creating form file", ErrBuilder)
                /\ pc' = "formReturn"
    /\ closed' = closed + 1
    /\ UNCHANGED <<api, request, fsOK, tgIdx, opened, sent, sendErr, decoded,
                   response, err, fvars>>

\* A faulty variant of WriteField: the error is dropped and the form goes on.
WriteFieldGoesOn(name, value, msg, next) ==
    \E ok \in BOOLEAN :
        /\ ops' = Append(ops, Op("WriteField", name, value, ok))
        /\ pc' = next
        /\ UNCHANGED formErr

\* err = b.WriteField(name, value); if err != nil { return fmt.Errorf(msg, err) }
WriteField(name, value, msg, next) ==
    \E ok \in BOOLEAN :
        /\ ops' = Append(ops, Op("WriteField", name, value, ok))
        /\ IF ok THEN pc' = next /\ UNCHANGED formErr
           ELSE formErr' = Wrap(msg, ErrBuilder) /\ pc' = "formReturn"

\* The field is not provided: nothing is written.
SkipField(next) == pc' = next /\ UNCHANGED <<ops, formErr>>

\* A faulty variant of WriteModel: an empty model name is not written.
WriteModelIfProvided ==
    /\ pc = "model"
    /\ IF request.Model # ""
       THEN WriteField("model", request.Model, "writing model name", "prompt")
       ELSE SkipField("prompt")
    /\ UNCHANGED <<api, request, fsOK, tgIdx, opened, closed, sent, sendErr,
                   decoded, response, err, fvars>>

WriteModel ==
    /\ pc = "model"
    /\ WriteField("model", request.Model, "writing model name", "prompt")
    /\ UNCHANGED <<api, request, fsOK, tgIdx, opened, closed, sent, sendErr,
                   decoded, response, err, fvars>>

WritePrompt ==
    /\ pc = "prompt"
    /\ IF request.Prompt # ""
       THEN WriteField("prompt", request.Prompt, "writing prompt", "format")
       ELSE SkipField("format")
    /\ UNCHANGED <<api, request, fsOK, tgIdx, opened, closed, sent, sendErr,
                   decoded, response, err, fvars>>

WriteFormat ==
    /\ pc = "format"
    /\ IF request.Format # ""
       THEN WriteField("response_format", request.Format, "writing format",
                       "temperature")
       ELSE SkipField("temperature")
    /\ UNCHANGED <<api, request, fsOK, tgIdx, opened, closed, sent, sendErr,
                   decoded, response, err, fvars>>

\* request.Temperature != 0; the value is fmt.Sprintf("%.2f", ...).
WriteTemperature ==
    /\ pc = "temperature"
    /\ IF ~FloatEq(request.Temperature, Fin(FALSE, 0, -MinExp))
       THEN WriteField("temperature",
                       AppendFloat(request.Temperature, TemperaturePrec),
                       "writing temperature", "language")
       ELSE SkipField("language")
    /\ UNCHANGED <<api, request, fsOK, tgIdx, opened, closed, sent, sendErr,
                   decoded, response, err, fvars>>

WriteLanguage ==
    /\ pc = "language"
    /\ IF request.Language # ""
       THEN WriteField("language", request.Language, "writing language",
                       "granularities")
       ELSE SkipField("granularities")
    /\ UNCHANGED <<api, request, fsOK, tgIdx, opened, closed, sent, sendErr,
                   decoded, response, err, fvars>>

\* for _, tg := range request.TimestampGranularities: one field per element.
WriteGranularity ==
    /\ pc = "granularities"
    /\ IF tgIdx <= Len(request.TimestampGranularities)
       THEN /\ WriteField("timestamp_granularities[]",
                          request.TimestampGranularities[tgIdx],
                          "writing timestamp_granularities[]", "granularities")
            /\ tgIdx' = tgIdx + 1
       ELSE SkipField("close") /\ UNCHANGED tgIdx
    /\ UNCHANGED <<api, request, fsOK, opened, closed, sent, sendErr, decoded,
                   response, err, fvars>>

\* return b.Close()
Close ==
    /\ pc = "close"
    /\ \E ok \in BOOLEAN :
        /\ ops' = Append(ops, Op("Close", "", "", ok))
        /\ formErr' = IF ok THEN NoErr ELSE ErrBuilder
    /\ pc' = "formReturn"
    /\ UNCHANGED <<api, request, fsOK, tgIdx, opened, closed, sent, sendErr,
                   decoded, response, err, fvars>>

\* A faulty variant of FormReturn: the error of the form is not checked.
FormReturnUnchecked ==
    /\ pc = "formReturn"
    /\ err' = formErr
    /\ pc' = "newRequest"
    /\ UNCHANGED <<api, request, fsOK, tgIdx, ops, formErr, opened, closed, sent,
                   sendErr, decoded, response, fvars>>

\* if err = audioMultipartForm(request, builder); err != nil {
\*     return AudioResponse{}, err }
FormReturn ==
    /\ pc = "formReturn"
    /\ err' = formErr
    /\ IF formErr # NoErr
       THEN response' = ZeroAudioResponse /\ pc' = "done"
       ELSE UNCHANGED response /\ pc' = "newRequest"
    /\ UNCHANGED <<api, request, fsOK, tgIdx, ops, formErr, opened, closed, sent,
                   sendErr, decoded, fvars>>

\* req, err := c.newRequest(..., withContentType(builder.FormDataContentType()))
\* if err != nil { return AudioResponse{}, err }
NewRequest ==
    /\ pc = "newRequest"
    /\ ops' = Append(ops, Op("FormDataContentType", "", "", TRUE))
    /\ \E ok \in BOOLEAN :
        IF ok THEN pc' = "send" /\ UNCHANGED <<response, err>>
        ELSE /\ response' = ZeroAudioResponse
             /\ err' = ErrNewRequest
             /\ pc' = "done"
    /\ UNCHANGED <<api, request, fsOK, tgIdx, formErr, opened, closed, sent,
                   sendErr, decoded, fvars>>

\* c.sendRequest(req, v): one HTTP request; v is filled, wholly or in part,
\* and an error or nil is returned.
SendRequest(target, values) ==
    /\ sent' = sent + 1
    /\ \E d \in values, e \in SendErrors \cup {NoErr} :
        /\ decoded' = [target |-> target, value |-> d]
        /\ sendErr' = e

\* err = c.sendRequest(req, &response)
SendJSON ==
    /\ pc = "send"
    /\ HasJSONResponse(request)
    /\ SendRequest("AudioResponse", DecodedJSON)
    /\ response' = decoded'.value
    /\ err' = sendErr'
    /\ pc' = "sent"
    /\ UNCHANGED <<api, request, fsOK, tgIdx, ops, formErr, opened, closed, fvars>>

\* err = c.sendRequest(req, &textResponse)
\* response = textResponse.ToAudioResponse()
SendText ==
    /\ pc = "send"
    /\ ~HasJSONResponse(request)
    /\ SendRequest("audioTextResponse", DecodedText)
    /\ response' = ToAudioResponse(decoded'.value)
    /\ err' = sendErr'
    /\ pc' = "sent"
    /\ UNCHANGED <<api, request, fsOK, tgIdx, ops, formErr, opened, closed, fvars>>

\* A faulty variant of Return: the response is returned as the send left it.
ReturnAsFilled ==
    /\ pc = "sent"
    /\ pc' = "done"
    /\ UNCHANGED <<api, request, fsOK, tgIdx, ops, formErr, opened, closed, sent,
                   sendErr, decoded, response, err, fvars>>

\* if err != nil { return AudioResponse{}, err }; return
Return ==
    /\ pc = "sent"
    /\ response' = IF err # NoErr THEN ZeroAudioResponse ELSE response
    /\ pc' = "done"
    /\ UNCHANGED <<api, request, fsOK, tgIdx, ops, formErr, opened, closed, sent,
                   sendErr, decoded, err, fvars>>

---------------------------------------------------------------------------
(* CreateSpeech                                                            *)

\* Speed: 1, 0.5, NaN and +Inf.
SpeechRequests ==
    [Model : {"tts-1"}, Input : {"hello"}, Voice : {"alloy"},
     Speed : {Fin(FALSE, Pow(2, MantBits - 1), 1 - MantBits),
              Fin(FALSE, Pow(2, MantBits - 1), -MantBits), NaN, Inf(1)}]

ZeroRawResponse == [body |-> "nil", httpHeader |-> "nil"]
RawResponses == {ZeroRawResponse, [body |-> "audio", httpHeader |-> "hdr"]}

CreateSpeech ==
    /\ pc = "idle"
    /\ \E r \in SpeechRequests : request' = r
    /\ api' = "speech"
    /\ response' = ZeroRawResponse
    /\ pc' = "speechNewRequest"
    /\ UNCHANGED <<fsOK, tgIdx, ops, formErr, opened, closed, sent, sendErr,
                   decoded, err, fvars>>

\* c.newRequest(..., withBody(request), ...): the body is marshalled, which
\* fails when a FloatFrac of it does; the builder may fail for other reasons.
SpeechNewRequest ==
    /\ pc = "speechNewRequest"
    /\ \E ok \in BOOLEAN :
        IF ok /\ MarshalJSON(request.Speed).err = NoErr
        THEN pc' = "speechSend" /\ UNCHANGED err
        ELSE /\ err' = IF MarshalJSON(request.Speed).err # NoErr
                       THEN MarshalJSON(request.Speed).err ELSE ErrNewRequest
             /\ pc' = "done"
    /\ UNCHANGED <<api, request, fsOK, tgIdx, ops, formErr, opened, closed, sent,
                   sendErr, decoded, response, fvars>>

\* return c.sendRequestRaw(req)
SpeechSend ==
    /\ pc = "speechSend"
    /\ sent' = sent + 1
    /\ \E d \in RawResponses, e \in SendErrors \cup {NoErr} :
        /\ decoded' = [target |-> "RawResponse", value |-> d]
        /\ sendErr' = e
        /\ response' = d
        /\ err' = e
    /\ pc' = "done"
    /\ UNCHANGED <<api, request, fsOK, tgIdx, ops, formErr, opened, closed, fvars>>

Next ==
    \/ CreateTranscription \/ CreateTranslation \/ CreateSpeech
    \/ CreateFormFileReader \/ OsOpen \/ CreateFormFile
    \/ WriteModel \/ WritePrompt \/ WriteFormat \/ WriteTemperature
    \/ WriteLanguage \/ WriteGranularity \/ Close
    \/ FormReturn \/ NewRequest \/ SendJSON \/ SendText \/ Return
    \/ SpeechNewRequest \/ SpeechSend

Spec == Init /\ [][Next]_vars


---------------------------------------------------------------------------
(* Reading a decimal text back: what the properties of MarshalJSON are     *)
(* stated with.                                                            *)

IsDigit(ch) == \E d \in 1 .. 10 : DigitChars[d] = ch
DigitValue(ch) == (CHOOSE d \in 1 .. 10 : DigitChars[d] = ch) - 1

AllDigits(t) == Len(t) > 0 /\ \A i \in 1 .. Len(t) : IsDigit(t[i])

RECURSIVE DigitsValue(_)
DigitsValue(t) ==
    IF Len(t) = 0 THEN 0
    ELSE 10 * DigitsValue(SubSeq(t, 1, Len(t) - 1)) + DigitValue(t[Len(t)])

HasMinus(t) == Len(t) > 0 /\ t[1] = "-"
Unsigned(t) == IF HasMinus(t) THEN Tail(t) ELSE t

\* The position of the decimal point in t, 0 when there is none.
PointAt(t) ==
    IF \E i \in 1 .. Len(t) : t[i] = "."
    THEN CHOOSE i \in 1 .. Len(t) : t[i] = "." /\ \A j \in 1 .. i - 1 : t[j] # "."
    ELSE 0

\* Positional notation with a decimal point: an optional sign, digits, one
\* point, digits; no exponent and no other character.
IsPositional(t) ==
    LET u == Unsigned(t)
        p == PointAt(u)
    IN  /\ p > 1 /\ p < Len(u)
        /\ AllDigits(SubSeq(u, 1, p - 1))
        /\ AllDigits(SubSeq(u, p + 1, Len(u)))

IntPart(t) == SubSeq(Unsigned(t), 1, PointAt(Unsigned(t)) - 1)
FracPart(t) == SubSeq(Unsigned(t), PointAt(Unsigned(t)) + 1, Len(Unsigned(t)))

LargestUnits == (Pow(2, MantBits) - 1) * Pow(2, MaxExp + UnitBits)

\* The value nearest to the decimal c * 10^-k, ties to the even mantissa,
\* infinity beyond the largest finite value: what reading the text back as a
\* number of the format gives.
NearestFloat(neg, c, k) ==
    LET num == c * Pow(2, UnitBits)
        den == Pow(10, k)
        fl == num \div den
        g == Pow(2, Max(BitLen(fl) - MantBits, 1))
        down == fl - (fl % g)
        up == down + g
        pick == IF down * den = num THEN down
                ELSE IF 2 * num < (down + up) * den THEN down
                ELSE IF 2 * num > (down + up) * den THEN up
                ELSE IF (down \div g) % 2 = 0 THEN down ELSE up
    IN  IF pick > LargestUnits THEN Inf(IF neg THEN -1 ELSE 1)
        ELSE FromUnits(neg, pick)

ParseFloat(t) ==
    NearestFloat(HasMinus(t), DigitsValue(IntPart(t) \o FracPart(t)),
                 Len(FracPart(t)))

IsIntegral(x) == x.cls = "fin" /\ Units(x) % Pow(2, UnitBits) = 0
IntegerValue(x) == Units(x) \div Pow(2, UnitBits)

---------------------------------------------------------------------------
(* Properties of FloatFrac.MarshalJSON (under FloatSpec).                  *)

\* C1: MarshalJSON returns an error and no bytes for NaN, +Inf and -Inf, and
\* a nil error (with bytes) for every finite input: a non-finite value is
\* never serialized.
C1_NonFiniteRejected ==
    fpc = "ret" =>
        /\ fin.cls \in {"nan", "inf"} => fout.err # NoErr /\ fout.bytes = NoBytes
        /\ fin.cls = "fin" => fout.err = NoErr /\ fout.bytes # NoBytes
        /\ fout.bytes # NoBytes => fin.cls = "fin"

C1_Witness ==
    fpc = "ret" /\ fin = NaN /\ fout.err = ErrUnsupported /\ fout.bytes = NoBytes

\* The text is the plain decimal digits of the integer, then ".0".
IntegerText(t, value) ==
    /\ IsPositional(t)
    /\ FracPart(t) = <<"0">>
    /\ Len(IntPart(t)) = 1 \/ IntPart(t)[1] # "0"
    /\ DigitsValue(IntPart(t)) = value

\* C2 as stated: for every finite integral input n the result is the plain
\* decimal digits of n, with a leading '-' when n is negative (n < 0) and
\* none otherwise, followed by exactly ".0"; 0 gives 0.0.
C2_MinusOnlyWhenNegative ==
    (fpc = "ret" /\ IsIntegral(fin)) =>
        /\ fout.err = NoErr
        /\ IntegerText(fout.bytes, IntegerValue(fin))
        /\ HasMinus(fout.bytes) <=> (fin.neg /\ Units(fin) > 0)

\* C2 as amended: for every finite integral input n the result is the plain
\* decimal digits of |n| followed by exactly ".0" (one fractional digit, 0,
\* no exponent), with a leading '-' exactly when the sign bit of n is set:
\* when n is negative and also when n is negative zero, which gives -0.0.
C2_IntegralOneDecimal ==
    (fpc = "ret" /\ IsIntegral(fin)) =>
        /\ fout.err = NoErr
        /\ IntegerText(fout.bytes, IntegerValue(fin))
        /\ HasMinus(fout.bytes) <=> fin.neg

C2_Witness ==
    /\ fpc = "ret" /\ fin.cls = "fin" /\ fin.neg /\ IntegerValue(fin) = 3
    /\ fout.bytes = <<"-", "3", ".", "0">>

\* The decimals with k digits after the point that lie between the two
\* neighbours of x; a decimal beyond a neighbour is nearer to it than to x.
NearbyDecimals(x, k) ==
    ((Units(x) - UlpUnits(x)) * Pow(10, k)) \div Pow(2, UnitBits) ..
    ((Units(x) + UlpUnits(x)) * Pow(10, k)) \div Pow(2, UnitBits) + 1

\* C3: for every finite non-integral input the result is in positional
\* notation with a decimal point (never an exponent), reads back as exactly
\* the input, and no decimal with fewer digits reads back as the input.
C3_ShortestRoundTrip ==
    (fpc = "ret" /\ fin.cls = "fin" /\ ~IsIntegral(fin)) =>
        /\ fout.err = NoErr
        /\ IsPositional(fout.bytes)
        /\ ParseFloat(fout.bytes) = fin
        /\ \A k \in 0 .. Len(FracPart(fout.bytes)) - 1 :
               \A c \in NearbyDecimals(fin, k) : NearestFloat(fin.neg, c, k) # fin

C3_Witness ==
    /\ fpc = "ret" /\ fin = Fin(FALSE, 9, -MinExp)
    /\ fout.bytes = <<"0", ".", "5", "6">>


---------------------------------------------------------------------------
(* Properties of the API calls (under Spec).                               *)

AudioCall == api \in {"transcriptions", "translations"}

\* C4: the decode path depends on request.Format alone: sendRequest decodes
\* into an AudioResponse exactly when Format is "", "json" or "verbose_json"
\* (the values for which HasJSONResponse is true), and into an
\* audioTextResponse for every other format.
C4_DecodePathFromFormat ==
    AudioCall =>
        /\ HasJSONResponse(request) <=> request.Format \in {"", "json", "verbose_json"}
        /\ decoded.target # "none" =>
              /\ decoded.target = "AudioResponse" <=>
                     request.Format \in {"", "json", "verbose_json"}
              /\ decoded.target = "audioTextResponse" <=>
                     request.Format \notin {"", "json", "verbose_json"}

C4_Witness ==
    /\ AudioCall /\ pc = "sent" /\ request.Format = ""
    /\ decoded.target = "AudioResponse"

\* C5: a successful call returns one shape on both paths: on the text path
\* Text and the HTTP header of the decoded text response, every other field
\* zero; on the structured path the decoded AudioResponse as it is.
C5_OneResponseShape ==
    (AudioCall /\ pc = "done" /\ err = NoErr) =>
        /\ DOMAIN response = DOMAIN ZeroAudioResponse
        /\ decoded.target = "audioTextResponse" =>
              /\ response.Text = decoded.value.Text
              /\ response.httpHeader = decoded.value.httpHeader
              /\ \A f \in DOMAIN ZeroAudioResponse \ {"Text", "httpHeader"} :
                     response[f] = ZeroAudioResponse[f]
        /\ decoded.target = "AudioResponse" => response = decoded.value

C5_Witness ==
    /\ AudioCall /\ pc = "done" /\ err = NoErr
    /\ decoded.target = "audioTextResponse"
    /\ response.Text = "hello" /\ response.httpHeader = "hdr"

\* C6: whenever the call returns an error the returned AudioResponse is the
\* zero value, also when the failing send had filled a part of it; the error
\* of the send is returned as it is.
C6_ZeroResponseOnError ==
    (AudioCall /\ pc = "done") =>
        /\ err # NoErr => response = ZeroAudioResponse
        /\ sent > 0 => err = sendErr

C6_Witness ==
    /\ AudioCall /\ pc = "done" /\ err \in SendErrors
    /\ decoded.value.Text = "hel"
    /\ response = ZeroAudioResponse

ExpectedParts(r) ==
    <<IF r.Reader # "nil" THEN <<"CreateFormFileReader", "file", r.FilePath>>
      ELSE <<"CreateFormFile", "file", r.FilePath>>>>
    \o <<<<"WriteField", "model", r.Model>>>>
    \o (IF r.Prompt # "" THEN <<<<"WriteField", "prompt", r.Prompt>>>> ELSE <<>>)
    \o (IF r.Format # "" THEN <<<<"WriteField", "response_format", r.Format>>>>
        ELSE <<>>)
    \o (IF Units(r.Temperature) # 0 THEN <<<<"WriteField", "temperature", "">>>>
        ELSE <<>>)
    \o (IF r.Language # "" THEN <<<<"WriteField", "language", r.Language>>>>
        ELSE <<>>)
    \o [i \in 1 .. Len(r.TimestampGranularities) |->
           <<"WriteField", "timestamp_granularities[]", r.TimestampGranularities[i]>>]
    \o <<<<"Close", "", "">>>>

WrittenParts ==
    [i \in 1 .. Len(ops) |->
        <<ops[i].op, ops[i].name,
          IF ops[i].name = "temperature" THEN "" ELSE ops[i].value>>]

\* C8: when audioMultipartForm succeeds the builder has seen, in this order:
\* the file part, "model" (also when empty), then "prompt", "response_format",
\* "temperature" and "language", each exactly when its value is not empty
\* (not zero), one "timestamp_granularities[]" per element in slice order,
\* and Close last.
C8_FormOrder ==
    (AudioCall /\ pc = "formReturn" /\ formErr = NoErr) =>
        /\ WrittenParts = ExpectedParts(request)
        /\ \A i \in 1 .. Len(ops) : ops[i].ok

C8_Witness ==
    /\ AudioCall /\ pc = "formReturn" /\ formErr = NoErr
    /\ request.Model = "" /\ request.Prompt # "" /\ request.Format = ""
    /\ Units(request.Temperature) # 0
    /\ Len(request.TimestampGranularities) = 2
    /\ Len(ops) = 7

FilePartFailed ==
    \/ request.Reader = "nil" /\ pc \notin {"idle", "createFileField"} /\ ~fsOK
    \/ ops # <<>> /\ ~ops[1].ok

\* C9: audioMultipartForm stops at the first builder operation that fails:
\* nothing is done on the builder after it (no write, no Close), the form
\* returns an error, which is what the call returns, and no HTTP request is
\* sent; when the file part fails no field at all is written.
C9_StopsAtFirstFailure ==
    AudioCall =>
        /\ \A i \in 1 .. Len(ops) : ~ops[i].ok => i = Len(ops)
        /\ (ops # <<>> /\ ~ops[Len(ops)].ok) =>
              /\ pc \in {"formReturn", "done"}
              /\ formErr # NoErr
              /\ pc = "done" => err = formErr
        /\ formErr # NoErr => sent = 0
        /\ FilePartFailed =>
              /\ \A i \in 1 .. Len(ops) : ops[i].op \notin {"WriteField", "Close"}
              /\ formErr # NoErr
              /\ sent = 0

C9_Witness ==
    /\ AudioCall /\ pc = "done" /\ sent = 0
    /\ Len(ops) = 3 /\ ops[3].name = "prompt" /\ ~ops[3].ok
    /\ err = Wrap("writing prompt", ErrBuilder)

\* C10: with a Reader the file part is built from the reader, FilePath being
\* the file name, and no file is opened; without one the file at FilePath is
\* opened, and every opened file is closed when createFileField has returned,
\* whether the write of the file part succeeded or not.
C10_ReaderFirstFileClosed ==
    AudioCall =>
        /\ closed <= opened
        /\ request.Reader # "nil" =>
              /\ opened = 0
              /\ ops # <<>> => /\ ops[1].op = "CreateFormFileReader"
                               /\ ops[1].value = request.FilePath
        /\ (request.Reader = "nil" /\ pc \notin {"idle", "createFileField"}) =>
              /\ opened = IF fsOK THEN 1 ELSE 0
              /\ ops # <<>> => ops[1].op = "CreateFormFile"
        /\ pc \notin {"idle", "createFileField", "createFormFile"} => closed = opened

C10_Witness ==
    /\ AudioCall /\ pc = "formReturn" /\ request.Reader = "nil"
    /\ opened = 1 /\ closed = 1 /\ ~ops[1].ok

=============================================================================
